---------------------------- MODULE Spec2Model ----------------------------
(***************************************************************************)
(* Model of auto_update_gemini.py: one update run (daily_event_update)     *)
(* loads the persisted catalog, purges stale events, searches every seed   *)
(* query, checks each candidate's link, asks the verifier, assigns ids,    *)
(* merges, deduplicates and saves.  Runs repeat on the same events.json.   *)
(*                                                                         *)
(* Text (titles, venues, dates, links) is a sequence of one-character      *)
(* strings, so that lower(), substring tests and key concatenation are     *)
(* computed as the code computes them.  A dict is a function whose DOMAIN  *)
(* is its set of keys; a missing key is a KeyError.                        *)
(***************************************************************************)
EXTENDS Integers, Sequences, FiniteSets, TLC

(***************************************************************************)
(* Bounds of the model.                                                    *)
(***************************************************************************)
MaxRuns == 2      \* update runs on the same events.json
MaxHits == 1      \* raw hits on one search results page
NumQueries == 2   \* seed queries of a run (SEARCH_QUERIES lists 8)

(***************************************************************************)
(* Text helpers: str.lower(), `sub in s`.                                  *)
(***************************************************************************)
UpperChars ==
  <<"A", "B", "C", "D", "E", "F", "G", "H", "I", "J", "K", "L", "M",
    "N", "O", "P", "Q", "R", "S", "T", "U", "V", "W", "X", "Y", "Z">>

LowerChars ==
  <<"a", "b", "c", "d", "e", "f", "g", "h", "i", "j", "k", "l", "m",
    "n", "o", "p", "q", "r", "s", "t", "u", "v", "w", "x", "y", "z">>

UpperSet == { UpperChars[i] : i \in DOMAIN UpperChars }

LowerChar(c) ==
  IF c \in UpperSet
  THEN LowerChars[CHOOSE i \in DOMAIN UpperChars : UpperChars[i] = c]
  ELSE c

Lower(s) == [i \in 1..Len(s) |-> LowerChar(s[i])]

\* Python's `sub in s` on strings
Contains(s, sub) ==
  \E i \in 1..(Len(s) - Len(sub) + 1) : SubSeq(s, i, i + Len(sub) - 1) = sub

(***************************************************************************)
(* Dicts.                                                                  *)
(***************************************************************************)
HasKey(d, k) == k \in DOMAIN d

\* d[k] = v on a dict
SetItem(d, k, v) == [f \in (DOMAIN d) \cup {k} |-> IF f = k THEN v ELSE d[f]]

None == <<>>

\* Python truthiness of a dict-or-None: None and {} are falsy
Truthy(d) == DOMAIN d # {}

(***************************************************************************)
(* Inputs the environment can supply.                                      *)
(***************************************************************************)
Daily == <<"D", "a", "i", "l", "y">>

Nov9 == <<"9", " ", "N", "o", "v">>

\* The events published on the web during one behaviour: what the verifier
\* can extract as `event`.  Each scenario is a pair of event descriptions.
Scenarios ==
  { \* the same (title, venue) up to case; one date is stale
    { [title |-> <<"A">>, venue |-> <<"c">>, date |-> Daily],
      [title |-> <<"a">>, venue |-> <<"c">>, date |-> Nov9] },
    \* different (title, venue) pairs: "a_b" at "c", and "a" at "b_c"
    { [title |-> <<"a", "_", "b">>, venue |-> <<"c">>, date |-> Daily],
      [title |-> <<"a">>, venue |-> <<"b", "_", "c">>, date |-> Daily] },
    \* unrelated events; one date is stale
    { [title |-> <<"a">>, venue |-> <<"c">>, date |-> Nov9],
      [title |-> <<"b">>, venue |-> <<"c">>, date |-> Daily] },
    \* incomplete `event` objects: no venue, no date
    { [title |-> <<"a">>, date |-> Daily],
      [title |-> <<"a">>, venue |-> <<"c">>] } }

TrustedLink == <<"S", "I", "S", "T", "I", "C", ".", "s", "g">>

OtherLink == <<"b", "l", "o", "g", ".", "i", "o">>

Absent == <<"<", "a", "b", "s", "e", "n", "t", ">">>

\* one <div class="g"> of a results page: its <h3> text and its <a> href,
\* Absent when the element is missing; an <a> without href gives ''
RawHits ==
  [h3 : {<<"t">>, Absent}, a : {TrustedLink}]
    \cup { [h3 |-> <<"t">>, a |-> Absent],
           [h3 |-> <<"t">>, a |-> <<>>],
           [h3 |-> <<"t">>, a |-> OtherLink] }

RECURSIVE SeqsUpTo(_, _)
SeqsUpTo(S, n) ==
  IF n = 0 THEN {<<>>}
  ELSE LET shorter == SeqsUpTo(S, n - 1)
       IN  shorter \cup { Append(s, x) : s \in { t \in shorter : Len(t) = n - 1 }, x \in S }

\* what requests.get(search_url) gives: an exception, or a page of hits
Pages ==
  { [failed |-> TRUE, hits |-> <<>>] }
    \cup { [failed |-> FALSE, hits |-> h] : h \in SeqsUpTo(RawHits, MaxHits) }

\* what a HEAD or GET of a link gives: an exception/timeout (status 0),
\* or a response with a final status code
HttpOutcomes(codes) ==
  { [raised |-> TRUE, status |-> 0] }
    \cup { [raised |-> FALSE, status |-> s] : s \in codes }

\* the status codes a run meets
RunCodes == {200, 204, 404}

\* the status codes verify_link is probed with
ProbeCodes == 100..599

NotCalled == [raised |-> FALSE, status |-> 0]

\* what the verifier call gives: a transport error, a non-200 status, a body
\* without candidates, a text that is no JSON, or a parsed JSON object
VerifierResults(published) ==
  { [is_valid |-> FALSE, reasoning |-> <<"n">>],
    [is_valid |-> TRUE, reasoning |-> <<"y">>],
    [is_valid |-> TRUE, reasoning |-> <<"y">>, event |-> None],
    [is_valid |-> TRUE, reasoning |-> <<"y">>, event |-> [venue |-> <<"c">>, date |-> Daily]],
    [reasoning |-> <<"y">>] }
    \cup { [is_valid |-> v, reasoning |-> <<"r">>, event |-> e] :
             v \in BOOLEAN, e \in published }

VerifierResponses(published) ==
  { [kind |-> k, result |-> None] : k \in {"transport", "status", "nocandidates", "unparsable"} }
    \cup { [kind |-> "json", result |-> r] : r \in VerifierResults(published) }

(***************************************************************************)
(* Pure functions of the program.                                          *)
(***************************************************************************)
AllowList ==
  { <<"m", "a", "r", "i", "n", "a", "b", "a", "y">>,
    <<"s", "e", "n", "t", "o", "s", "a">>,
    <<"e", "s", "p", "l", "a", "n", "a", "d", "e">>,
    <<"g", "a", "r", "d", "e", "n", "s">>,
    <<"s", "i", "s", "t", "i", "c">>,
    <<"t", "i", "c", "k", "e", "t", "m", "a", "s", "t", "e", "r">>,
    <<"t", "i", "m", "e", "o", "u", "t">>,
    <<"m", "a", "r", "i", "n", "a", "b", "a", "y", "s", "a", "n", "d", "s">>,
    <<"m", "a", "n", "d", "a", "i">>,
    <<"r", "w", "s", "e", "n", "t", "o", "s", "a">>,
    <<"n", "h", "b", ".", "g", "o", "v", ".", "s", "g">>,
    <<"n", "a", "t", "i", "o", "n", "a", "l", "g", "a", "l", "l", "e", "r", "y">>,
    <<"t", "h", "e", "h", "o", "n", "e", "y", "c", "o", "m", "b", "e", "r", "s">>,
    <<"l", "i", "v", "e", "n", "a", "t", "i", "o", "n">>,
    <<"e", "v", "e", "n", "t", "b", "r", "i", "t", "e">>,
    <<"p", "e", "a", "t", "i", "x">> }

TopN == 5

\* `if title_elem and link_elem` and the domain filter on link.lower()
HitAccepted(hit) ==
  /\ hit.h3 # Absent
  /\ hit.a # Absent
  /\ LET link == Lower(hit.a)
     IN  \E domain \in AllowList : Contains(link, domain)

\* the hits that pass, worked out once
AcceptedHits == { hit : hit \in { h \in RawHits : HitAccepted(h) } }

IsAccepted(hit) == hit \in AcceptedHits

search_google_events(page, query) ==
  IF page.failed
  THEN <<>>
  ELSE LET kept == SelectSeq(page.hits, IsAccepted)
           results == [i \in 1..Len(kept) |->
                         [title |-> kept[i].h3, link |-> kept[i].a, query |-> query]]
       IN  SubSeq(results, 1, IF Len(results) < TopN THEN Len(results) ELSE TopN)

\* head, get: what a HEAD and a GET of the url give.  The GET is made only
\* when the HEAD raised; a HEAD that answers decides alone.
\* a variant that also falls back when the HEAD answers without status 200
verify_link_retrying(url, head, get) ==
  IF ~head.raised /\ head.status = 200
  THEN [url |-> url, head |-> head, get |-> NotCalled, result |-> TRUE]
  ELSE [url |-> url, head |-> head, get |-> get,
        result |-> (~get.raised /\ get.status = 200)]

verify_link(url, head, get) ==
  IF ~head.raised
  THEN [url |-> url, head |-> head, get |-> NotCalled, result |-> (head.status = 200)]
  ELSE [url |-> url, head |-> head, get |-> get,
        result |-> (~get.raised /\ get.status = 200)]

NoLinkCheck == [url |-> <<>>, head |-> NotCalled, get |-> NotCalled, result |-> FALSE]

\* a variant that returns the event whatever is_valid says
verify_event_ignoring_is_valid(response) ==
  IF response.kind # "json"
  THEN None
  ELSE LET result == response.result
       IN  IF HasKey(result, "event") /\ HasKey(result.event, "title")
           THEN result.event
           ELSE None

\* Returns the event dict, or None.  Every exception ends in `return None`.
verify_event_with_gemini(response) ==
  IF response.kind # "json"
  THEN None
  ELSE LET result == response.result
       IN  IF HasKey(result, "is_valid") /\ result.is_valid
           THEN IF HasKey(result, "event") /\ HasKey(result.event, "title")
                THEN result.event
                ELSE None
           ELSE None

load_existing_events(f) ==
  IF f.exists /\ f.complete THEN f.events ELSE <<>>

\* a variant that compares titles and venues as written
dedup_key_cased(event) == event.title \o <<"_">> \o event.venue

dedup_key(event) == Lower(event.title) \o <<"_">> \o Lower(event.venue)

RECURSIVE dedup_loop(_, _, _, _)
dedup_loop(events, i, seen, unique) ==
  IF i > Len(events)
  THEN unique
  ELSE LET key == dedup_key(events[i])
       IN  IF key \notin seen
           THEN dedup_loop(events, i + 1, seen \cup {key}, Append(unique, events[i]))
           ELSE dedup_loop(events, i + 1, seen, unique)

deduplicate_events(events) == dedup_loop(events, 1, {}, <<>>)

\* event['title'] or event['venue'] of some event is a KeyError
deduplicate_raises(events) ==
  \E i \in 1..Len(events) : ~HasKey(events[i], "title") \/ ~HasKey(events[i], "venue")

RecurrenceWords ==
  { <<"d", "a", "i", "l", "y">>,
    <<"w", "e", "e", "k", "e", "n", "d">>,
    <<"u", "n", "t", "i", "l">> }

Months ==
  { <<"d", "e", "c">>, <<"j", "a", "n">>, <<"f", "e", "b">>, <<"m", "a", "r">>,
    <<"a", "p", "r">>, <<"m", "a", "y">>, <<"j", "u", "n">> }

\* a variant that keeps every event
keep_event_always(event) == HasKey(event, "date")

keep_event(event) ==
  LET date_str == Lower(event.date)
  IN  \/ \E word \in RecurrenceWords : Contains(date_str, word)
      \/ \E month \in Months : Contains(date_str, month)

remove_past_events(events) == SelectSeq(events, keep_event)

\* event['date'] of some event is a KeyError
remove_past_raises(events) ==
  \E i \in 1..Len(events) : ~HasKey(events[i], "date")

\* verified_event['id'] = len(existing_events) + len(new_events) + 1
new_id(existing, new) == Len(existing) + Len(new) + 1

(***************************************************************************)
(* State.                                                                  *)
(***************************************************************************)
VARIABLES
  web,              \* the event descriptions published on the web (fixed per behaviour)
  file,             \* events.json: exists, the events written, complete or cut short
  run,              \* number of the current run
  pc,               \* position of the run in daily_event_update
  existing_events,  \* local of daily_event_update
  new_events,       \* local of daily_event_update
  all_events,       \* local of daily_event_update
  qi,               \* index of `query` in SEARCH_QUERIES
  results,          \* candidates of the current query
  ri,               \* index of `result` in results
  link_ok,          \* verify_link(result['link']) of the current result
  link_log,         \* a verify_link call: what was asked and what was answered
  prior,            \* history: events.json as it was when the run started
  loaded,           \* history: what load_existing_events returned
  accepted,         \* history: per entry of new_events, where it came from
  origin,           \* history: per entry of all_events, "existing" or "new"
  calls_here,       \* history: verifier calls made for the current result
  slept             \* history: time.sleep(1) ran since the last verifier call

vars ==
  <<web, file, run, pc, existing_events, new_events, all_events, qi, results, ri,
    link_ok, link_log, prior, loaded, accepted, origin, calls_here, slept>>

NoFile == [exists |-> FALSE, events |-> <<>>, complete |-> FALSE]

\* a process that has just started: nothing computed yet
ResetLocals ==
  /\ existing_events' = <<>>
  /\ new_events' = <<>>
  /\ all_events' = <<>>
  /\ qi' = 0
  /\ results' = <<>>
  /\ ri' = 0
  /\ link_ok' = FALSE
  /\ loaded' = <<>>
  /\ accepted' = <<>>
  /\ origin' = <<>>
  /\ calls_here' = 0
  /\ slept' = TRUE

Init ==
  /\ web \in Scenarios
  /\ file = NoFile
  /\ prior = NoFile
  /\ run = 1
  /\ pc = "load"
  /\ existing_events = <<>>
  /\ new_events = <<>>
  /\ all_events = <<>>
  /\ qi = 0
  /\ results = <<>>
  /\ ri = 0
  /\ link_ok = FALSE
  /\ link_log = NoLinkCheck
  /\ loaded = <<>>
  /\ accepted = <<>>
  /\ origin = <<>>
  /\ calls_here = 0
  /\ slept = TRUE

InRun == pc \in {"load", "filter", "query", "result", "verify", "sleep", "merge", "save", "write"}

(***************************************************************************)
(* daily_event_update, step by step.                                       *)
(***************************************************************************)
\* existing_events = load_existing_events()
Load ==
  /\ pc = "load"
  /\ existing_events' = load_existing_events(file)
  /\ loaded' = load_existing_events(file)
  /\ pc' = "filter"
  /\ UNCHANGED <<web, file, run, new_events, all_events, qi, results, ri, link_ok,
                 link_log, prior, accepted, origin, calls_here, slept>>

\* existing_events = remove_past_events(existing_events); new_events = []
RemovePast ==
  /\ pc = "filter"
  /\ IF remove_past_raises(existing_events)
     THEN /\ pc' = "crashed"
          /\ UNCHANGED <<existing_events, qi>>
     ELSE /\ existing_events' = remove_past_events(existing_events)
          /\ qi' = 1
          /\ pc' = "query"
  /\ UNCHANGED <<web, file, run, new_events, all_events, results, ri, link_ok, link_log,
                 prior, loaded, accepted, origin, calls_here, slept>>

\* for query in SEARCH_QUERIES: results = search_google_events(query)
Search ==
  /\ pc = "query"
  /\ qi <= NumQueries
  /\ \E page \in Pages : results' = search_google_events(page, qi)
  /\ ri' = 1
  /\ pc' = "result"
  /\ UNCHANGED <<web, file, run, existing_events, new_events, all_events, qi, link_ok,
                 link_log, prior, loaded, accepted, origin, calls_here, slept>>

\* for result in results: ... is exhausted, on to the next query
NextQuery ==
  /\ pc = "result"
  /\ ri > Len(results)
  /\ qi' = qi + 1
  /\ ri' = 0
  /\ pc' = "query"
  /\ UNCHANGED <<web, file, run, existing_events, new_events, all_events, results,
                 link_ok, link_log, prior, loaded, accepted, origin, calls_here, slept>>

\* if not verify_link(result['link']): continue
CheckLink ==
  /\ pc = "result"
  /\ ri <= Len(results)
  /\ \E head \in HttpOutcomes(RunCodes), get \in HttpOutcomes(RunCodes) :
       link_ok' = verify_link(results[ri].link, head, get).result
  /\ IF link_ok'
     THEN pc' = "verify" /\ ri' = ri
     ELSE pc' = "result" /\ ri' = ri + 1
  /\ UNCHANGED <<web, file, run, existing_events, new_events, all_events, qi, results,
                 link_log, prior, loaded, accepted, origin, calls_here, slept>>

\* verified_event = verify_event_with_gemini(result)
\* if verified_event: verified_event['id'] = ...; new_events.append(verified_event)
Verify ==
  /\ pc = "verify"
  /\ \E response \in VerifierResponses(web) :
       LET verified_event == verify_event_with_gemini(response)
       IN  IF Truthy(verified_event)
           THEN /\ new_events' =
                     Append(new_events,
                            SetItem(verified_event, "id", new_id(existing_events, new_events)))
                /\ accepted' =
                     Append(accepted,
                            [candidate |-> results[ri],
                             link_ok |-> link_ok,
                             is_valid |-> HasKey(response.result, "is_valid")
                                            /\ response.result.is_valid])
           ELSE UNCHANGED <<new_events, accepted>>
  /\ calls_here' = calls_here + 1
  /\ slept' = FALSE
  /\ pc' = "sleep"
  /\ UNCHANGED <<web, file, run, existing_events, all_events, qi, results, ri, link_ok,
                 link_log, prior, loaded, origin>>

\* a variant that sleeps and takes the same result again
Sleep_same_result ==
  /\ pc = "sleep"
  /\ slept' = TRUE
  /\ calls_here' = 0
  /\ link_ok' = FALSE
  /\ pc' = "result"
  /\ UNCHANGED <<web, file, run, existing_events, new_events, all_events, qi, results,
                 ri, link_log, prior, loaded, accepted, origin>>

\* time.sleep(1), then the next result
Sleep ==
  /\ pc = "sleep"
  /\ slept' = TRUE
  /\ ri' = ri + 1
  /\ calls_here' = 0
  /\ link_ok' = FALSE
  /\ pc' = "result"
  /\ UNCHANGED <<web, file, run, existing_events, new_events, all_events, qi, results,
                 link_log, prior, loaded, accepted, origin>>

\* SEARCH_QUERIES is exhausted
EndQueries ==
  /\ pc = "query"
  /\ qi > NumQueries
  /\ pc' = "merge"
  /\ UNCHANGED <<web, file, run, existing_events, new_events, all_events, qi, results,
                 ri, link_ok, link_log, prior, loaded, accepted, origin, calls_here,
                 slept>>

Tag(events, tag) == [i \in 1..Len(events) |-> SetItem(events[i], "origin", tag)]

\* all_events = deduplicate_events(existing_events + new_events)
Merge ==
  /\ pc = "merge"
  /\ IF deduplicate_raises(existing_events \o new_events)
     THEN /\ pc' = "crashed"
          /\ UNCHANGED <<all_events, origin>>
     ELSE /\ all_events' = deduplicate_events(existing_events \o new_events)
          /\ origin' =
               LET tagged == deduplicate_events(Tag(existing_events, "existing")
                                                  \o Tag(new_events, "new"))
               IN  [i \in 1..Len(tagged) |-> tagged[i].origin]
          /\ pc' = "save"
  /\ UNCHANGED <<web, file, run, existing_events, new_events, qi, results, ri, link_ok,
                 link_log, prior, loaded, accepted, calls_here, slept>>

\* save_events: open('events.json', 'w') truncates the file
SaveOpen ==
  /\ pc = "save"
  /\ file' = [exists |-> TRUE, events |-> <<>>, complete |-> FALSE]
  /\ pc' = "write"
  /\ UNCHANGED <<web, run, existing_events, new_events, all_events, qi, results, ri,
                 link_ok, link_log, prior, loaded, accepted, origin, calls_here, slept>>

\* save_events: json.dump writes the next part of the document
SaveWrite ==
  /\ pc = "write"
  /\ Len(file.events) < Len(all_events)
  /\ file' = [file EXCEPT !.events = Append(@, all_events[Len(@) + 1])]
  /\ UNCHANGED <<web, run, pc, existing_events, new_events, all_events, qi, results, ri,
                 link_ok, link_log, prior, loaded, accepted, origin, calls_here, slept>>

\* save_events: the document is complete and the file is closed
SaveClose ==
  /\ pc = "write"
  /\ Len(file.events) = Len(all_events)
  /\ file' = [file EXCEPT !.complete = TRUE]
  /\ pc' = "done"
  /\ UNCHANGED <<web, run, existing_events, new_events, all_events, qi, results, ri,
                 link_ok, link_log, prior, loaded, accepted, origin, calls_here, slept>>

\* save_events: open or write raises (no permission, disk full)
SaveFails ==
  /\ pc \in {"save", "write"}
  /\ pc' = "failed"
  /\ UNCHANGED <<web, file, run, existing_events, new_events, all_events, qi, results,
                 ri, link_ok, link_log, prior, loaded, accepted, origin, calls_here,
                 slept>>

\* the process is terminated from outside; its memory is gone
Abort ==
  /\ InRun
  /\ pc' = "aborted"
  /\ ResetLocals
  /\ UNCHANGED <<web, file, run, link_log, prior>>

\* the scheduler starts the next run
NextRun ==
  /\ pc \in {"done", "failed", "crashed", "aborted"}
  /\ run < MaxRuns
  /\ run' = run + 1
  /\ prior' = file
  /\ pc' = "load"
  /\ ResetLocals
  /\ UNCHANGED <<web, file, link_log>>

Next ==
  \/ Load
  \/ RemovePast
  \/ Search
  \/ NextQuery
  \/ CheckLink
  \/ Verify
  \/ Sleep
  \/ EndQueries
  \/ Merge
  \/ SaveOpen
  \/ SaveWrite
  \/ SaveClose
  \/ SaveFails
  \/ Abort
  \/ NextRun

Spec == Init /\ [][Next]_vars

(***************************************************************************)
(* verify_link on its own: one call with any url and any pair of answers.  *)
(***************************************************************************)
ProbeLinks == {TrustedLink, OtherLink}

InitLink ==
  /\ web = {}
  /\ file = NoFile
  /\ prior = NoFile
  /\ run = 1
  /\ pc = "probe"
  /\ existing_events = <<>>
  /\ new_events = <<>>
  /\ all_events = <<>>
  /\ qi = 0
  /\ results = <<>>
  /\ ri = 0
  /\ link_ok = FALSE
  /\ link_log = NoLinkCheck
  /\ loaded = <<>>
  /\ accepted = <<>>
  /\ origin = <<>>
  /\ calls_here = 0
  /\ slept = TRUE

LinkProbe ==
  /\ pc = "probe"
  /\ \E url \in ProbeLinks, head \in HttpOutcomes(ProbeCodes), get \in HttpOutcomes(ProbeCodes) :
       /\ link_log' = verify_link(url, head, get)
       /\ link_ok' = link_log'.result
  /\ pc' = "probed"
  /\ UNCHANGED <<web, file, run, existing_events, new_events, all_events, qi, results,
                 ri, prior, loaded, accepted, origin, calls_here, slept>>

NextLink == LinkProbe

SpecLink == InitLink /\ [][NextLink]_vars

(***************************************************************************)
(* Vocabulary of the properties.                                           *)
(***************************************************************************)
\* the run has merged: all_events is the catalog the run saves
Merged == pc \in {"save", "write", "done", "failed"}

Range(seq) == { seq[i] : i \in 1..Len(seq) }

\* the same case-insensitive (title, venue) pair
SamePair(e, f) ==
  /\ Lower(e.title) = Lower(f.title)
  /\ Lower(e.venue) = Lower(f.venue)

NoSharedPair(events) ==
  \A i, j \in 1..Len(events) : i # j => ~SamePair(events[i], events[j])

\* the "still relevant" predicate, as the specification words it
RelevantWords ==
  { <<"d", "a", "i", "l", "y">>, <<"w", "e", "e", "k", "e", "n", "d">>,
    <<"u", "n", "t", "i", "l">>, <<"d", "e", "c">>, <<"j", "a", "n">>,
    <<"f", "e", "b">>, <<"m", "a", "r">>, <<"a", "p", "r">>, <<"m", "a", "y">>,
    <<"j", "u", "n">> }

\* the dates of the model that satisfy it, worked out once
RelevantDates ==
  { d : d \in { date \in {Daily, Nov9} :
                 \E word \in RelevantWords : Contains(Lower(date), word) } }

StillRelevant(event) ==
  /\ HasKey(event, "date")
  /\ event.date \in RelevantDates

\* the links of the model that contain an allowlisted domain, worked out once
AllowListed ==
  { l : l \in { link \in {TrustedLink, OtherLink, <<>>, Absent} :
                 \E domain \in AllowList : Contains(Lower(link), domain) } }

OnAllowList(link) == link \in AllowListed

MaxId(events) ==
  IF events = <<>>
  THEN 0
  ELSE CHOOSE m \in { events[i].id : i \in 1..Len(events) } :
         \A i \in 1..Len(events) : events[i].id <= m

\* the first event of each case-insensitive (title, venue) pair, in order
RECURSIVE FirstOfEachPair(_, _)
FirstOfEachPair(events, i) ==
  IF i > Len(events)
  THEN <<>>
  ELSE (IF \E j \in 1..(i - 1) : SamePair(events[j], events[i])
        THEN <<>>
        ELSE <<events[i]>>) \o FirstOfEachPair(events, i + 1)

IsSuccess(status) == status \in 200..299

GetMade == link_log.get # NotCalled

(***************************************************************************)
(* C1.  All ids of the catalog a run merges and saves are pairwise         *)
(* distinct.  Violated: the new id is a count, not a fresh number.         *)
(***************************************************************************)
C1_IdsPairwiseDistinct ==
  Merged =>
    \A i, j \in 1..Len(all_events) : i # j => all_events[i].id # all_events[j].id

(***************************************************************************)
(* C2.  The output of deduplicate_events, and so the saved catalog, holds  *)
(* no two events with the same case-insensitive (title, venue) pair.       *)
(***************************************************************************)
C2_NoSharedPair ==
  /\ Merged => NoSharedPair(all_events)
  /\ file.complete => NoSharedPair(file.events)

\* a run saved a catalog from which a duplicate differing only in case was dropped
C2_Witness ==
  /\ pc = "done"
  /\ file.events = all_events
  /\ \E i, j \in 1..Len(existing_events \o new_events) :
       LET merged == existing_events \o new_events
       IN  /\ i < j
           /\ SamePair(merged[i], merged[j])
           /\ merged[i].title # merged[j].title

(***************************************************************************)
(* C3, as stated.  Every event of the saved catalog, survivor or newly     *)
(* accepted, has a date that satisfies the "still relevant" predicate.     *)
(* (Events that carry a date: one without a date is the matter of C4.)     *)
(***************************************************************************)
C3_EverySavedDateRelevant ==
  Merged =>
    \A i \in 1..Len(all_events) :
      HasKey(all_events[i], "date") => StillRelevant(all_events[i])

(***************************************************************************)
(* C3, amended.  Every event of the saved catalog that survived from the   *)
(* loaded catalog has a date that satisfies the "still relevant"           *)
(* predicate; newly accepted events are saved without that check.          *)
(***************************************************************************)
C3_SurvivorsRelevant ==
  Merged =>
    \A i \in 1..Len(all_events) : origin[i] = "existing" => StillRelevant(all_events[i])

\* a run purged a stale event, kept a survivor and saved a stale new event
C3_Witness ==
  /\ pc = "done"
  /\ Len(existing_events) < Len(loaded)
  /\ \E i \in 1..Len(all_events) : origin[i] = "existing"
  /\ \E j \in 1..Len(all_events) : origin[j] = "new" /\ ~StillRelevant(all_events[j])

(***************************************************************************)
(* C4.  No failure of a query or a candidate ends the run before save; a   *)
(* run ends with an error only when save_events fails.  Violated: an       *)
(* accepted event without venue raises in deduplicate_events.              *)
(***************************************************************************)
C4_OnlySaveFailureEndsRun == pc # "crashed"

(***************************************************************************)
(* C5.  At every moment, also after an external abort, events.json holds   *)
(* the complete prior catalog or the complete new one.  Violated: the      *)
(* file is truncated before it is rewritten.                               *)
(***************************************************************************)
C5_PriorOrNewCatalog ==
  \/ load_existing_events(file) = load_existing_events(prior)
  \/ pc \in {"write", "done"} /\ load_existing_events(file) = all_events

(***************************************************************************)
(* C6.  Every event a run adds comes from a verifier answer with is_valid  *)
(* true, for a candidate with title and link, whose link is on the         *)
(* allowlist and passed verify_link; only allowlisted candidates reach     *)
(* verify_link and only link-checked ones reach the verifier.              *)
(***************************************************************************)
C6_OnlyVerifiedEventsAdded ==
  /\ Len(accepted) = Len(new_events)
  /\ \A k \in 1..Len(accepted) :
       /\ accepted[k].is_valid
       /\ accepted[k].link_ok
       /\ accepted[k].candidate.title # Absent
       /\ accepted[k].candidate.link # Absent
       /\ OnAllowList(accepted[k].candidate.link)
  /\ \A i \in 1..Len(results) :
       /\ results[i].title # Absent
       /\ results[i].link # Absent
       /\ OnAllowList(results[i].link)
  /\ pc \in {"verify", "sleep"} => link_ok /\ ri \in 1..Len(results)
  /\ Merged =>
       \A i \in 1..Len(all_events) :
         IF origin[i] = "new"
         THEN all_events[i] \in Range(new_events)
         ELSE all_events[i] \in Range(loaded)

\* a run saved a catalog with an event it added
C6_Witness ==
  /\ pc = "done"
  /\ \E i \in 1..Len(all_events) : origin[i] = "new" /\ file.events[i] = all_events[i]

(***************************************************************************)
(* C7, as stated.  verify_link falls back to the full fetch whenever the   *)
(* header-only check fails or answers without a success status, and        *)
(* returns true exactly when one of the two answers is in the 2xx class.   *)
(***************************************************************************)
C7_FallbackOnAnyNonSuccess ==
  pc = "probed" =>
    /\ (link_log.head.raised \/ ~IsSuccess(link_log.head.status)) => GetMade
    /\ link_log.result <=>
         \/ ~link_log.head.raised /\ IsSuccess(link_log.head.status)
         \/ GetMade /\ ~link_log.get.raised /\ IsSuccess(link_log.get.status)

(***************************************************************************)
(* C7, amended.  verify_link makes the header-only check first and falls   *)
(* back to the full fetch exactly when that check raises; it returns true  *)
(* exactly when the answer that decides (the header-only answer, or the    *)
(* full fetch's after a raise) has status 200.                             *)
(***************************************************************************)
C7_FallbackOnlyOnRaise ==
  pc = "probed" =>
    /\ GetMade <=> link_log.head.raised
    /\ link_log.result <=>
         \/ ~link_log.head.raised /\ link_log.head.status = 200
         \/ link_log.head.raised /\ ~link_log.get.raised /\ link_log.get.status = 200

\* the header-only check raised and the full fetch answered 200
C7_Witness ==
  /\ pc = "probed"
  /\ link_log.head.raised
  /\ GetMade
  /\ link_log.get.status = 200
  /\ link_log.result

(***************************************************************************)
(* C8.  The k-th accepted event gets id = (largest id among the surviving  *)
(* existing events, or 0) + k.  Violated: the code adds k to their number. *)
(***************************************************************************)
C8_IdsContinueFromMax ==
  \A k \in 1..Len(new_events) : new_events[k].id = MaxId(existing_events) + k

(***************************************************************************)
(* C9.  The saved catalog is survivors then new events, from which an      *)
(* event is removed iff an earlier one has the same case-insensitive       *)
(* (title, venue) pair.  Violated: the key joins title and venue with "_". *)
(***************************************************************************)
C9_FirstOfEachPairKept ==
  Merged => all_events = FirstOfEachPair(existing_events \o new_events, 1)

(***************************************************************************)
(* C10.  The verifier is called at most once per candidate, candidates are *)
(* taken one at a time in discovery order, and the delay step follows      *)
(* every verifier call, so one lies between any two calls.                 *)
(***************************************************************************)
PositionAdvanced ==
  \/ qi' > qi
  \/ qi' = qi /\ ri' > ri

=============================================================================
